---- MODULE Spec2Model ----
(***************************************************************************)
(* A model of kariy/mirror: a webcam segmentation mask is projected onto a *)
(* grid of tiles (Grid), drawn by a skin (Renderer, MinesweeperRenderer,   *)
(* FlipDotRenderer, AsciiRenderer) and driven by App's animation-frame     *)
(* loop.                                                                   *)
(*                                                                         *)
(* Numbers.  The program computes in IEEE doubles (phases are stored as    *)
(* float32).  The model uses exact integers:                               *)
(*   - a mask value or threshold v is the integer 100*v (hundredths);      *)
(*   - a normalised coordinate is a fraction <<num, den>>, so the tile     *)
(*     centre (col + 0.5) / cols is <<2*col + 1, 2*cols>>;                 *)
(*   - mineRatio is a fraction <<num, den>>;                               *)
(*   - a phase p is the integer PhaseScale*p, rounded to nearest after     *)
(*     every easing step.                                                  *)
(* Time stamps are integers (milliseconds).                                *)
(***************************************************************************)
EXTENDS Integers, Sequences, FiniteSets, TLC

VARIABLES
    \* Grid (src/src/core/grid.ts)
    cols, rows, tiles,
    \* the skin: Renderer / MinesweeperRenderer / FlipDotRenderer / AsciiRenderer
    rendererType, lastGridSize, states, tileData, mineRatio, minePositions, pc,
    canvas,
    \* Segmenter and WebcamCapture
    segmenter, lastMask, maskWidth, maskHeight, stream, readyState,
    \* App (src/src/main.ts)
    running, animationFrameId, lastSegmentTime, segmentInterval, threshold, tileSize,
    startPc, errorHidden,
    \* the page: document.hidden, the pending animation-frame callbacks, the
    \* size of #canvas-container, the clock
    hidden, rafQueue, container, now,
    \* history variables: what the last call was, and counters.  The program's
    \* actions leave them alone; each specification adds what it observes.
    lastOp, repeated, ticks, flips, startPhase, tickLog, invocations

gridVars == <<cols, rows, tiles>>
skinVars == <<rendererType, lastGridSize, states, tileData, mineRatio, minePositions, pc, canvas>>
segVars  == <<segmenter, lastMask, maskWidth, maskHeight>>
camVars  == <<stream, readyState>>
appVars  == <<running, animationFrameId, lastSegmentTime, segmentInterval, threshold, tileSize,
              startPc, errorHidden, hidden, rafQueue, container, now>>
histVars == <<lastOp, repeated, ticks, flips, startPhase, tickLog, invocations>>
vars == <<gridVars, skinVars, segVars, camVars, appVars, histVars>>

\* animationFrameId = null.  (requestAnimationFrame's handles are >= 1.)
Null == 0
\* A canvas nothing was drawn on.
Blank == <<>>
\* lastMask = null.  (An empty Float32Array reads as 0 everywhere too.)
NoMask == <<>>

----------------------------------------------------------------------------
(* Bounds of the model.                                                    *)

MaxCols == 2
MaxRows == 2
MaxMaskW == 2
MaxMaskH == 1

\* Mask values and thresholds, in hundredths.
MaskValues == {0, 100}
Thresholds == {0, 30, 70}
ConstValues == {0, 50}

----------------------------------------------------------------------------
(* Segmenter.getMaskValueAt and the samplers handed to updateFromMask.     *)

\* A mask is [w, h, data] with data a sequence of w*h values, row-major;
\* JavaScript's data[idx] is data[idx + 1] here.
Masks ==
    UNION { { [w |-> w, h |-> h, data |-> d] : d \in [1..(w * h) -> MaskValues] } :
            <<w, h>> \in (1..MaxMaskW) \X (1..MaxMaskH) }

\* Faulty variant of getMaskValueAt: without a mask it answers 1.
GetMaskValueAtOne(m, w, h, xn, xd, yn, yd) ==
    IF m = NoMask \/ w = 0 THEN 100
    ELSE LET px  == (xn * w) \div xd
             py  == (yn * h) \div yd
             idx == py * w + px
         IN  IF idx + 1 \in DOMAIN m THEN m[idx + 1] ELSE 0

\* getMaskValueAt(x, y) with x = xn/xd, y = yn/yd, on the cached mask m
\* (NoMask when lastMask is null) of width w and height h.
GetMaskValueAt(m, w, h, xn, xd, yn, yd) ==
    IF m = NoMask \/ w = 0 THEN 0
    ELSE LET px  == (xn * w) \div xd
             py  == (yn * h) \div yd
             idx == py * w + px
         IN  IF idx + 1 \in DOMAIN m THEN m[idx + 1] ELSE 0

\* A sampler is the closure passed as getMaskValue: a constant function, or
\* (x, y) => segmenter.getMaskValueAt(x, y) over a cached mask.
\* The segmenter's cache while no mask is available.
EmptyCache == [w |-> 0, h |-> 0, data |-> NoMask]

Samplers ==
    { [kind |-> "const", v |-> v] : v \in ConstValues }
    \cup { [kind |-> "mask", m |-> m] : m \in Masks \cup {EmptyCache} }

SampleAt(s, xn, xd, yn, yd) ==
    IF s.kind = "const" THEN s.v
    ELSE GetMaskValueAt(s.m.data, s.m.w, s.m.h, xn, xd, yn, yd)

----------------------------------------------------------------------------
(* Grid.                                                                   *)

\* Faulty variant of initializeTiles: row and col are stored swapped.
InitializeTilesSwapped(c, r) ==
    [row \in 0..(r - 1) |->
        [col \in 0..(c - 1) |-> [row |-> col, col |-> row, pressed |-> FALSE]]]

InitializeTiles(c, r) ==
    [row \in 0..(r - 1) |->
        [col \in 0..(c - 1) |-> [row |-> row, col |-> col, pressed |-> FALSE]]]

\* Faulty variants of updateFromMask (a strict comparison; a flag that is
\* toggled instead of assigned), against which the properties are tested.
UpdateFromMaskStrict(t, c, r, s, thr) ==
    [row \in 0..(r - 1) |->
        [col \in 0..(c - 1) |->
            [t[row][col] EXCEPT
                !.pressed = SampleAt(s, 2 * col + 1, 2 * c, 2 * row + 1, 2 * r) > thr]]]

UpdateFromMaskToggle(t, c, r, s, thr) ==
    [row \in 0..(r - 1) |->
        [col \in 0..(c - 1) |->
            [t[row][col] EXCEPT
                !.pressed = (t[row][col].pressed
                             # (SampleAt(s, 2 * col + 1, 2 * c, 2 * row + 1, 2 * r) >= thr))]]]

\* updateFromMask(getMaskValue, threshold) on tiles t of a c x r grid.
UpdateFromMask(t, c, r, s, thr) ==
    [row \in 0..(r - 1) |->
        [col \in 0..(c - 1) |->
            [t[row][col] EXCEPT
                !.pressed = SampleAt(s, 2 * col + 1, 2 * c, 2 * row + 1, 2 * r) >= thr]]]

TileCoords == (0..(rows - 1)) \X (0..(cols - 1))

\* getTile(row, col): this.tiles[row]?.[col]; Undefined stands for undefined.
Undefined == [undefined |-> TRUE]

GetTile(t, row, col) ==
    IF row \in DOMAIN t
      THEN IF col \in DOMAIN t[row] THEN t[row][col] ELSE Undefined
      ELSE Undefined

\* forEachTile(callback): the tiles handed to the callback, in order.
ForEachTile(t, c, r) ==
    [k \in 1..(c * r) |-> t[(k - 1) \div c][(k - 1) % c]]

----------------------------------------------------------------------------
(* Initial values of the objects, as their constructors leave them.        *)

\* new Grid({cols: c, rows: r})
GridNew(c, r) ==
    /\ cols = c
    /\ rows = r
    /\ tiles = InitializeTiles(c, r)

\* A skin of the given kind, never rendered; ratio is the constructor's
\* mineRatio (used by MinesweeperRenderer only).
SkinNew(type, ratio) ==
    /\ rendererType = type
    /\ lastGridSize = [cols |-> 0, rows |-> 0]
    /\ states = <<>>
    /\ tileData = <<>>
    /\ mineRatio = ratio
    /\ minePositions = {}
    /\ pc = "idle"
    /\ canvas = Blank

DefaultMineRatio == <<1, 20>>

SegmenterNew ==
    /\ segmenter = FALSE
    /\ lastMask = NoMask
    /\ maskWidth = 0
    /\ maskHeight = 0

WebcamNew ==
    /\ stream = FALSE
    /\ readyState = 0

SegmentIntervalMain == 33
SegmentIntervalAlt == 50
ThresholdMain == 30
TileSizeMain == 16

\* The fields of a new App whose segmentInterval is interval, in a page
\* whose #canvas-container has the given size; startCamera() has been called
\* and awaits segmenter.initialize().
AppIn(interval, size) ==
    /\ running = FALSE
    /\ animationFrameId = Null
    /\ lastSegmentTime = 0
    /\ segmentInterval = interval
    /\ threshold = ThresholdMain
    /\ tileSize = TileSizeMain
    /\ startPc = "initialize"
    /\ errorHidden = TRUE
    /\ hidden = FALSE
    /\ rafQueue = {}
    /\ container = size
    /\ now = 0

AppNew(interval) == AppIn(interval, <<640, 480>>)

HistNew ==
    /\ lastOp = [op |-> "new"]
    /\ repeated = FALSE
    /\ ticks = 0
    /\ flips = 0
    /\ startPhase = 0
    /\ tickLog = <<>>
    /\ invocations = <<>>

----------------------------------------------------------------------------
(* What the specifications record of a call.                               *)

\* The call is recorded; repeated says whether it repeats the call before.
Log(o) ==
    /\ lastOp' = o
    /\ repeated' = (lastOp = o)
    /\ UNCHANGED <<ticks, flips, startPhase, tickLog, invocations>>

LogUpdate(s, thr) == Log([op |-> "update", sampler |-> s, thr |-> thr])

LogResize(c, r) == Log([op |-> "resize", cols |-> c, rows |-> r])

\* A render is recorded with the call before it, whether the grid's size
\* differed from the size the skin had cached, and whether a mine layout
\* was generated.
LogRender(stale, generated) ==
    Log([op |-> "render", after |-> lastOp.op, stale |-> stale, generated |-> generated])

----------------------------------------------------------------------------
(* GridSpec: a Grid driven through its public API with samplers and        *)
(* thresholds drawn from Samplers and Thresholds.                          *)

GridInit ==
    /\ \E c \in 1..MaxCols, r \in 1..MaxRows : GridNew(c, r)
    /\ SkinNew("plain", DefaultMineRatio)
    /\ SegmenterNew /\ WebcamNew /\ AppNew(SegmentIntervalMain) /\ HistNew

\* grid.updateFromMask(s, thr)
GridUpdateFromMask(s, thr) ==
    /\ tiles' = UpdateFromMask(tiles, cols, rows, s, thr)
    /\ UNCHANGED <<cols, rows, skinVars, segVars, camVars, appVars>>

\* grid.resize(c, r)
GridResize(c, r) ==
    /\ cols' = c
    /\ rows' = r
    /\ tiles' = InitializeTiles(c, r)
    /\ UNCHANGED <<skinVars, segVars, camVars, appVars>>

GridNext ==
    \/ \E s \in Samplers, thr \in Thresholds :
           GridUpdateFromMask(s, thr) /\ LogUpdate(s, thr)
    \/ \E c \in 1..MaxCols, r \in 1..MaxRows :
           GridResize(c, r) /\ LogResize(c, r)

GridSpec == GridInit /\ [][GridNext]_vars

\* C3: after updateFromMask(sample, threshold) every tile (row, col) has
\* pressed = (sample((col + 0.5)/cols, (row + 0.5)/rows) >= threshold); a
\* constant sampler 0.5 presses every tile at threshold 0.3 and none at 0.7.
C3_UpdateSamplesTileCentres ==
    lastOp.op = "update" =>
        /\ \A rc \in TileCoords :
              tiles[rc[1]][rc[2]].pressed =
                  (SampleAt(lastOp.sampler, 2 * rc[2] + 1, 2 * cols,
                            2 * rc[1] + 1, 2 * rows) >= lastOp.thr)
        /\ (lastOp.sampler = [kind |-> "const", v |-> 50] /\ lastOp.thr = 30)
              => \A rc \in TileCoords : tiles[rc[1]][rc[2]].pressed
        /\ (lastOp.sampler = [kind |-> "const", v |-> 50] /\ lastOp.thr = 70)
              => \A rc \in TileCoords : ~tiles[rc[1]][rc[2]].pressed

\* A mask with distinct values was projected: some tile pressed, some not.
C3_Witness ==
    /\ lastOp.op = "update"
    /\ lastOp.sampler.kind = "mask"
    /\ \E rc \in TileCoords : tiles[rc[1]][rc[2]].pressed
    /\ \E rc \in TileCoords : ~tiles[rc[1]][rc[2]].pressed

\* C11 as stated: for every threshold in [0, 1], an updateFromMask whose
\* sampler reads a segmenter without a mask (and so returns 0 everywhere)
\* leaves every tile unpressed.
C11_NoMaskAllOff ==
    (lastOp.op = "update" /\ lastOp.sampler = [kind |-> "mask", m |-> EmptyCache]
        /\ lastOp.thr >= 0 /\ lastOp.thr <= 100)
    => \A rc \in TileCoords : ~tiles[rc[1]][rc[2]].pressed

\* C11 as amended: for every threshold in (0, 1] ... leaves every tile
\* unpressed; at threshold 0 it presses every tile, 0 >= 0 being true.
C11_NoMaskAllOffAboveZero ==
    (lastOp.op = "update" /\ lastOp.sampler = [kind |-> "mask", m |-> EmptyCache]
        /\ lastOp.thr >= 0 /\ lastOp.thr <= 100)
    => \A rc \in TileCoords : tiles[rc[1]][rc[2]].pressed = (lastOp.thr = 0)

\* A grid of several tiles was projected from a segmenter without a mask at
\* the threshold 0.7, and all its tiles are unpressed.
C11_Witness ==
    /\ lastOp.op = "update"
    /\ lastOp.sampler = [kind |-> "mask", m |-> EmptyCache]
    /\ lastOp.thr = 70
    /\ cols * rows >= 2
    /\ \A rc \in TileCoords : ~tiles[rc[1]][rc[2]].pressed

\* C16: after any construction and resize calls the grid holds exactly
\* rows*cols tiles; the tile stored at (row, col) carries that row and col;
\* getTile(row, col) returns it for 0 <= row < rows and 0 <= col < cols and
\* returns no tile outside that range; forEachTile visits every tile exactly
\* once, in row-major order.
C16_TilesAddressable ==
    /\ DOMAIN tiles = 0..(rows - 1)
    /\ \A row \in 0..(rows - 1) : DOMAIN tiles[row] = 0..(cols - 1)
    /\ \A row \in -1..rows, col \in -1..cols :
          IF row >= 0 /\ row < rows /\ col >= 0 /\ col < cols
            THEN /\ GetTile(tiles, row, col) = tiles[row][col]
                 /\ tiles[row][col].row = row
                 /\ tiles[row][col].col = col
            ELSE GetTile(tiles, row, col) = Undefined
    /\ LET visited == ForEachTile(tiles, cols, rows)
       IN  /\ Len(visited) = rows * cols
           /\ \A k \in 1..Len(visited) :
                 visited[k] = tiles[(k - 1) \div cols][(k - 1) % cols]
                 /\ visited[k].row * cols + visited[k].col = k - 1

\* A grid was resized to one of several tiles that is not square.
C16_Witness ==
    /\ lastOp.op = "resize"
    /\ cols # rows
    /\ cols * rows >= 2

\* C4: updateFromMask is idempotent: a call with the sampler and threshold
\* of the call just before it leaves every tile's pressed flag as it was.
C4_UpdateIdempotent ==
    [][(lastOp.op = "update" /\ lastOp' = lastOp /\ repeated') => tiles' = tiles]_vars

\* A second call with the same arguments has happened on a grid with a
\* pressed tile.
C4_Witness ==
    /\ repeated
    /\ lastOp.op = "update"
    /\ \E rc \in TileCoords : tiles[rc[1]][rc[2]].pressed

----------------------------------------------------------------------------
(* MinesweeperRenderer: the mine layout.                                   *)

Coords(c, r) == (0..(r - 1)) \X (0..(c - 1))

\* Faulty variant: rounds the mine count up.
MineCountCeil(c, r, ratio) == (c * r * ratio[1] + ratio[2] - 1) \div ratio[2]

\* mineCount = Math.floor(totalTiles * this.mineRatio)
MineCount(c, r, ratio) == (c * r * ratio[1]) \div ratio[2]

\* Faulty variant: the last index is never drawn.
RandomIndicesShort(c, r) == 0..(c * r - 2)

\* The values Math.floor(Math.random() * totalTiles) can take.
RandomIndices(c, r) == IF c * r = 0 THEN {0} ELSE 0..(c * r - 1)

\* The first pass over the tiles: -1 on the drawn positions, 0 elsewhere.
PlaceMines(c, r, mines) ==
    [rc \in Coords(c, r) |-> IF rc[1] * c + rc[2] \in mines THEN -1 ELSE 0]

\* Faulty variant: counts the four orthogonal neighbours only.
CountAdjacentMinesOrtho(td, row, col, r, c) ==
    Cardinality({ d \in {<<-1, 0>>, <<1, 0>>, <<0, -1>>, <<0, 1>>} :
        LET nr == row + d[1]
            nc == col + d[2]
        IN  /\ nr >= 0 /\ nr < r /\ nc >= 0 /\ nc < c
            /\ td[<<nr, nc>>] = -1 })

CountAdjacentMines(td, row, col, r, c) ==
    Cardinality({ d \in (-1..1) \X (-1..1) :
        LET nr == row + d[1]
            nc == col + d[2]
        IN  /\ ~(d[1] = 0 /\ d[2] = 0)
            /\ nr >= 0 /\ nr < r /\ nc >= 0 /\ nc < c
            /\ td[<<nr, nc>>] = -1 })

\* The second pass, tile k (row-major) onwards: every tile that is not a
\* mine gets its count, read from the map as updated so far.
RECURSIVE CountPass(_, _, _, _)
CountPass(td, k, c, r) ==
    IF k >= c * r THEN td
    ELSE LET row == k \div c
             col == k % c
         IN  CountPass(IF td[<<row, col>>] # -1
                         THEN [td EXCEPT ![<<row, col>>] =
                                  CountAdjacentMines(td, row, col, r, c)]
                         ELSE td,
                       k + 1, c, r)

\* What renderTile draws for each tile: raised, or revealed with the
\* tile's value (data?.minesweeperValue ?? 0).
MsFrame(t, c, r, td) ==
    [rc \in Coords(c, r) |->
        IF t[rc[1]][rc[2]].pressed
          THEN [revealed |-> TRUE, value |-> IF rc \in DOMAIN td THEN td[rc] ELSE 0]
          ELSE [revealed |-> FALSE, value |-> 0]]

\* render(grid, tileSize) is called.  With the grid's size unchanged since
\* the last render it draws at once; otherwise generateMinesweeperData
\* starts: the map is cleared and the draw loop is entered.
\* Faulty variant of render: the layout is generated on every call.
MsRenderCallAlways ==
    /\ rendererType = "minesweeper"
    /\ pc = "idle"
    /\ tileData' = <<>>
    /\ minePositions' = {}
    /\ pc' = "draw"
    /\ UNCHANGED <<lastGridSize, canvas>>
    /\ UNCHANGED <<gridVars, rendererType, states, mineRatio, segVars, camVars, appVars>>

MsRenderCall ==
    /\ rendererType = "minesweeper"
    /\ pc = "idle"
    /\ IF cols # lastGridSize.cols \/ rows # lastGridSize.rows
         THEN /\ tileData' = <<>>
              /\ minePositions' = {}
              /\ pc' = "draw"
              /\ UNCHANGED <<lastGridSize, canvas>>
         ELSE /\ canvas' = MsFrame(tiles, cols, rows, tileData)
              /\ UNCHANGED <<lastGridSize, tileData, minePositions, pc>>
    /\ UNCHANGED <<gridVars, rendererType, states, mineRatio, segVars, camVars, appVars>>

\* One iteration of  while (minePositions.size < mineCount)  drawing i.
MsDrawMine(i) ==
    /\ pc = "draw"
    /\ i \in RandomIndices(cols, rows)
    /\ Cardinality(minePositions) < MineCount(cols, rows, mineRatio)
    /\ minePositions' = minePositions \cup {i}
    /\ UNCHANGED <<gridVars, rendererType, lastGridSize, states, tileData, mineRatio, pc,
                   canvas, segVars, camVars, appVars>>

\* The loop exits; the two passes fill the map, render records the size and
\* draws the frame.
MsGenerateFinish ==
    /\ pc = "draw"
    /\ ~(Cardinality(minePositions) < MineCount(cols, rows, mineRatio))
    /\ tileData' = CountPass(PlaceMines(cols, rows, minePositions), 0, cols, rows)
    /\ lastGridSize' = [cols |-> cols, rows |-> rows]
    /\ canvas' = MsFrame(tiles, cols, rows, tileData')
    /\ pc' = "idle"
    /\ UNCHANGED <<gridVars, rendererType, states, mineRatio, minePositions,
                   segVars, camVars, appVars>>

----------------------------------------------------------------------------
(* MineSpec: a MinesweeperRenderer constructed with a mineRatio drawn from *)
(* MineRatios, rendering a grid that is resized and updated between the    *)
(* renders.  MineFairSpec adds that the loop keeps running and that        *)
(* Math.random() eventually yields every index.                            *)

MineMaxCols == 2
MineMaxRows == 2
MineRatios == {<<0, 1>>, <<1, 20>>, <<1, 4>>, <<1, 2>>, <<9, 10>>, <<1, 1>>, <<3, 2>>, <<2, 1>>}

MineInit ==
    /\ \E c \in 1..MineMaxCols, r \in 1..MineMaxRows : GridNew(c, r)
    /\ \E ratio \in MineRatios : SkinNew("minesweeper", ratio)
    /\ SegmenterNew /\ WebcamNew /\ AppNew(SegmentIntervalMain) /\ HistNew

\* The skin's cached size differs from the grid's.
Stale == cols # lastGridSize.cols \/ rows # lastGridSize.rows

MineRender ==
    /\ MsRenderCall
    /\ IF Stale THEN Log([op |-> "generate", after |-> lastOp.op])
                ELSE LogRender(FALSE, FALSE)

MineDraw(i) == MsDrawMine(i) /\ UNCHANGED histVars

MineFinish ==
    /\ MsGenerateFinish
    /\ Log([op |-> "render", after |-> lastOp.after, stale |-> TRUE, generated |-> TRUE])

MineResize(c, r) == pc = "idle" /\ GridResize(c, r) /\ LogResize(c, r)

MineUpdate(v) ==
    /\ pc = "idle"
    /\ GridUpdateFromMask([kind |-> "const", v |-> v], ThresholdMain)
    /\ LogUpdate([kind |-> "const", v |-> v], ThresholdMain)

MineNext ==
    \/ MineRender
    \/ \E i \in 0..(MineMaxCols * MineMaxRows - 1) : MineDraw(i)
    \/ MineFinish
    \/ \E c \in 1..MineMaxCols, r \in 1..MineMaxRows : MineResize(c, r)
    \/ \E v \in ConstValues : MineUpdate(v)

MineSpec == MineInit /\ [][MineNext]_vars

MineFairSpec ==
    /\ MineSpec
    /\ WF_vars(MineFinish)
    /\ \A i \in 0..(MineMaxCols * MineMaxRows - 1) : WF_vars(MineDraw(i))

\* The mine layout of the last completed generation.
Generated == pc = "idle" /\ lastGridSize.cols >= 1 /\ lastGridSize.rows >= 1
MineTiles == { rc \in DOMAIN tileData : tileData[rc] = -1 }

\* C1: with rows, cols >= 1 and 0 <= mineRatio <= 1, a generated layout for
\* a (cols, rows) grid has exactly floor(rows*cols*mineRatio) tiles of value
\* -1 (the k with k <= rows*cols*mineRatio < k + 1); none when mineRatio = 0.
C1_MineCountExact ==
    (Generated /\ mineRatio[1] <= mineRatio[2]) =>
        LET k     == Cardinality(MineTiles)
            total == lastGridSize.rows * lastGridSize.cols
        IN  /\ DOMAIN tileData = Coords(lastGridSize.cols, lastGridSize.rows)
            /\ k * mineRatio[2] <= total * mineRatio[1]
            /\ total * mineRatio[1] < (k + 1) * mineRatio[2]
            /\ mineRatio[1] = 0 => k = 0

\* A layout with some but not all tiles mined has been generated.
C1_Witness ==
    /\ Generated
    /\ mineRatio[1] <= mineRatio[2]
    /\ Cardinality(MineTiles) >= 2
    /\ Cardinality(MineTiles) < lastGridSize.rows * lastGridSize.cols

C8_SingleTileBecomesMine ==
    (pc = "draw" /\ cols = 1 /\ rows = 1 /\ mineRatio[1] >= mineRatio[2])
        ~> (pc = "idle" /\ tileData = (<<0, 0>> :> -1))

----------------------------------------------------------------------------
(* FlipDotRenderer and AsciiRenderer: one phase per tile, eased towards    *)
(* the tile's pressed flag on every render.                                *)

\* A phase p is held as the integer PhaseScale * p.
PhaseScale == 1000000

\* flipSpeed = 0.18, transitionSpeed = 0.2 and the snap distance 0.02, in
\* hundredths.
FlipSpeed == 18
TransitionSpeed == 20
SnapDistance == 2

Abs(x) == IF x < 0 THEN -x ELSE x
Min(a, b) == IF a < b THEN a ELSE b

\* target = tile.pressed ? 1 : 0
Target(tile) == IF tile.pressed THEN PhaseScale ELSE 0

\* Faulty variants: no snap to the target; a snap distance of 0.002.
EaseNoSnap(current, target, speed) ==
    IF current # target
      THEN (100 * current + (target - current) * speed + 50) \div 100
      ELSE current

EaseLateSnap(current, target, speed) ==
    IF current # target
      THEN LET moved == (100 * current + (target - current) * speed + 50) \div 100
           IN  IF Abs(target - moved) * 1000 < SnapDistance * PhaseScale
                 THEN target ELSE moved
      ELSE current

\* Faulty variants: the step is subtracted; the speed is ten times too large.
EaseAway(current, target, speed) ==
    IF current # target
      THEN LET moved == (100 * current - (target - current) * speed + 50) \div 100
           IN  IF Abs(target - moved) * 100 < SnapDistance * PhaseScale
                 THEN target ELSE moved
      ELSE current

EaseTenfold(current, target, speed) ==
    IF current # target
      THEN LET moved == (100 * current + (target - current) * speed * 10 + 50) \div 100
           IN  IF Abs(target - moved) * 100 < SnapDistance * PhaseScale
                 THEN target ELSE moved
      ELSE current

\* The easing step of one tile:
\*   if (current !== target) {
\*     current += (target - current) * speed;
\*     if (Math.abs(target - current) < 0.02) current = target;
\*   }
Ease(current, target, speed) ==
    IF current # target
      THEN LET moved == (100 * current + (target - current) * speed + 50) \div 100
           IN  IF Abs(target - moved) * 100 < SnapDistance * PhaseScale
                 THEN target ELSE moved
      ELSE current

\* new Float32Array(n)
Zeros(n) == [i \in 0..(n - 1) |-> 0]

\* forEachTile: the tile at (row, col) eases the phase at idx = row*c + col.
EaseTiles(st, t, c, r, speed) ==
    [i \in DOMAIN st |->
        IF i < c * r THEN Ease(st[i], Target(t[i \div c][i % c]), speed) ELSE st[i]]

\* What the flip-dot skin draws per tile: the colour and the squeeze
\* distFromRest = min(current, 1 - current) * 2, all functions of the phase.
FdFrame(st) ==
    [i \in DOMAIN st |->
        [r |-> 42 + (203 * st[i]) \div PhaseScale,
         g |-> 42 + (188 * st[i]) \div PhaseScale,
         b |-> 42 + (24 * st[i]) \div PhaseScale,
         distFromRest |-> 2 * Min(st[i], PhaseScale - st[i])]]

\* What the ASCII skin draws per tile: the character and its brightness.
AsFrame(st) ==
    [i \in DOMAIN st |->
        [charIndex |-> (st[i] * 9) \div PhaseScale,
         brightness |-> 80 + (st[i] * 175) \div PhaseScale]]

\* Faulty variants: the storage is never reallocated; it is reallocated on
\* every render.
PhaseStorageKept == states

PhaseStorageZeroed == Zeros(cols * rows)

\* Faulty variant: only the column count is compared with the cached one.
PhaseStorageColsOnly == IF cols # lastGridSize.cols THEN Zeros(cols * rows) ELSE states

\* The phase storage after the dimension check of render.
PhaseStorage == IF Stale THEN Zeros(cols * rows) ELSE states

\* Faulty variant of render: the tiles are released once drawn.
FdRenderReleasing ==
    /\ rendererType = "flipdot"
    /\ states' = EaseTiles(PhaseStorage, tiles, cols, rows, FlipSpeed)
    /\ lastGridSize' = [cols |-> cols, rows |-> rows]
    /\ canvas' = FdFrame(states')
    /\ tiles' = InitializeTiles(cols, rows)
    /\ UNCHANGED <<cols, rows, rendererType, tileData, mineRatio, minePositions, pc,
                   segVars, camVars, appVars>>

\* FlipDotRenderer.render(grid, tileSize)
FdRender ==
    /\ rendererType = "flipdot"
    /\ states' = EaseTiles(PhaseStorage, tiles, cols, rows, FlipSpeed)
    /\ lastGridSize' = [cols |-> cols, rows |-> rows]
    /\ canvas' = FdFrame(states')
    /\ UNCHANGED <<gridVars, rendererType, tileData, mineRatio, minePositions, pc,
                   segVars, camVars, appVars>>

\* AsciiRenderer.render(grid, tileSize)
AsRender ==
    /\ rendererType = "ascii"
    /\ states' = EaseTiles(PhaseStorage, tiles, cols, rows, TransitionSpeed)
    /\ lastGridSize' = [cols |-> cols, rows |-> rows]
    /\ canvas' = AsFrame(states')
    /\ UNCHANGED <<gridVars, rendererType, tileData, mineRatio, minePositions, pc,
                   segVars, camVars, appVars>>

----------------------------------------------------------------------------
(* EaseSpec: one tile under an animating skin.  Its target is set by       *)
(* updateFromMask (at most EaseMaxFlips changes of the target) and render  *)
(* is called over and over.  ticks counts the renders since the target     *)
(* last changed (up to EaseMaxTicks) and startPhase is the tile's phase at *)
(* that change.  EaseFairSpec adds that render ticks keep occurring.       *)

EaseMaxFlips == 2
EaseMaxTicks == 21

Pressed0 == tiles[0][0].pressed
Phase0 == IF 0 \in DOMAIN states THEN states[0] ELSE 0

EaseInit ==
    /\ GridNew(1, 1)
    /\ \E type \in {"flipdot", "ascii"} : SkinNew(type, DefaultMineRatio)
    /\ SegmenterNew /\ WebcamNew /\ AppNew(SegmentIntervalMain) /\ HistNew

EaseRender ==
    /\ FdRender \/ AsRender
    /\ lastOp' = [op |-> "render", after |-> lastOp.op, stale |-> Stale, generated |-> FALSE]
    /\ repeated' = FALSE
    /\ ticks' = Min(ticks + 1, EaseMaxTicks)
    /\ UNCHANGED <<flips, startPhase, tickLog, invocations>>

EaseUpdate(v) ==
    /\ GridUpdateFromMask([kind |-> "const", v |-> v], ThresholdMain)
    /\ lastOp' = [op |-> "update", sampler |-> [kind |-> "const", v |-> v],
                  thr |-> ThresholdMain]
    /\ repeated' = FALSE
    /\ IF tiles'[0][0].pressed # Pressed0
         THEN /\ flips < EaseMaxFlips
              /\ flips' = flips + 1
              /\ ticks' = 0
              /\ startPhase' = Phase0
         ELSE UNCHANGED <<flips, ticks, startPhase>>
    /\ UNCHANGED <<tickLog, invocations>>

EaseNext ==
    \/ EaseRender
    \/ \E v \in ConstValues : EaseUpdate(v)

EaseSpec == EaseInit /\ [][EaseNext]_vars

EaseFairSpec == EaseSpec /\ WF_vars(EaseRender)

\* The target last changed while the phase was at the opposite extreme.
FromExtreme ==
    /\ startPhase \in {0, PhaseScale}
    /\ startPhase # Target(tiles[0][0])

\* C5 as stated: with speed 0.18 and snap distance 0.02, a tile whose phase
\* starts at the extreme opposite to its target, the target not changing,
\* is exactly at the target after at most 19 render ticks.
C5_Within19Ticks ==
    (rendererType = "flipdot" /\ FromExtreme /\ ticks >= 19) => Phase0 = Target(tiles[0][0])

\* C5 as amended: ... is exactly at the target after at most 20 render
\* ticks (0.82^19 > 0.02 > 0.82^20).
C5_Within20Ticks ==
    (rendererType = "flipdot" /\ FromExtreme /\ ticks >= 20) => Phase0 = Target(tiles[0][0])

\* Twenty ticks after leaving 0 for a pressed target the phase is exactly 1.
C5_Witness ==
    /\ rendererType = "flipdot"
    /\ FromExtreme
    /\ startPhase = 0
    /\ ticks = 20
    /\ Phase0 = PhaseScale

\* C6: in both animating skins, once the tile's target stops changing and
\* render ticks keep occurring, the phase eventually equals the target
\* exactly (0 or 1) and stays equal from then on.
C6_ExactConvergence ==
    /\ (<>[]Pressed0) => (<>[](Phase0 = PhaseScale))
    /\ (<>[](~Pressed0)) => (<>[](Phase0 = 0))

\* The ASCII skin's tile has eased from 1 back to exactly 0.
C6_Witness ==
    /\ rendererType = "ascii"
    /\ flips = 2
    /\ startPhase = PhaseScale
    /\ ~Pressed0
    /\ ticks >= 1
    /\ Phase0 = 0

----------------------------------------------------------------------------
(* SkinSpec: a grid that is resized and updated, rendered by one of the    *)
(* three skins (at most SkinMaxTicks renders of an animating skin).        *)

SkinMaxTicks == 4
SkinRatios == {<<1, 20>>, <<1, 2>>}

SkinInit ==
    /\ \E c \in 1..MaxCols, r \in 1..MaxRows : GridNew(c, r)
    /\ \/ \E ratio \in SkinRatios : SkinNew("minesweeper", ratio)
       \/ \E type \in {"flipdot", "ascii"} : SkinNew(type, DefaultMineRatio)
    /\ SegmenterNew /\ WebcamNew /\ AppNew(SegmentIntervalMain) /\ HistNew

\* renderer.resize(width, height), the same in every skin: the canvas takes
\* the size, which clears it.
RendererResize ==
    /\ pc = "idle"
    /\ canvas' = Blank
    /\ UNCHANGED <<gridVars, rendererType, lastGridSize, states, tileData, mineRatio,
                   minePositions, pc, segVars, camVars, appVars>>

SkinEaseRender ==
    /\ ticks < SkinMaxTicks
    /\ FdRender \/ AsRender
    /\ lastOp' = [op |-> "render", after |-> lastOp.op, stale |-> Stale, generated |-> FALSE]
    /\ repeated' = FALSE
    /\ ticks' = ticks + 1
    /\ UNCHANGED <<flips, startPhase, tickLog, invocations>>

SkinNext ==
    \/ MineRender
    \/ \E i \in 0..(MaxCols * MaxRows - 1) : MineDraw(i)
    \/ MineFinish
    \/ SkinEaseRender
    \/ RendererResize /\ Log([op |-> "canvasResize"])
    \/ \E c \in 1..MaxCols, r \in 1..MaxRows : MineResize(c, r)
    \/ \E v \in ConstValues : MineUpdate(v)

SkinSpec == SkinInit /\ [][SkinNext]_vars

\* The mine layout is one for a c x r grid: floor(r*c*mineRatio) mines, and
\* every other tile counts the mines around it.
LayoutFor(c, r) ==
    /\ DOMAIN tileData = Coords(c, r)
    /\ LET k == Cardinality(MineTiles)
       IN  /\ k * mineRatio[2] <= r * c * mineRatio[1]
           /\ r * c * mineRatio[1] < (k + 1) * mineRatio[2]
    /\ \A rc \in Coords(c, r) :
          \/ tileData[rc] = -1
          \/ tileData[rc] = Cardinality({ n \in MineTiles :
                                /\ n # rc
                                /\ n[1] - rc[1] \in -1..1
                                /\ n[2] - rc[2] \in -1..1 })

\* After a resize and the skin's render: no tile pressed, every phase 0, a
\* mine layout generated in that render and right for the grid's size.
ResetByResize ==
    /\ \A rc \in TileCoords : ~tiles[rc[1]][rc[2]].pressed
    /\ rendererType \in {"flipdot", "ascii"} => states = Zeros(cols * rows)
    /\ rendererType = "minesweeper" => (lastOp.generated /\ LayoutFor(cols, rows))

----------------------------------------------------------------------------
(* The application: startCamera, the animation-frame loop, the page's       *)
(* events.  The renderer is the plain Renderer, which draws a tile raised   *)
(* or revealed by its pressed flag.                                         *)

Max(a, b) == IF a >= b THEN a ELSE b

Range(f) == { f[i] : i \in DOMAIN f }

\* Renderer.render: what the canvas shows of each tile.
PlainFrame(t, c, r) ==
    [rc \in Coords(c, r) |-> IF t[rc[1]][rc[2]].pressed THEN "revealed" ELSE "raised"]

\* createGrid(w, h): the size of the grid made for a w x h container.
CreateGrid(w, h, size) == <<Max(1, w \div size), Max(1, h \div size)>>

\* requestAnimationFrame: the handle of the callback added to the pending
\* set q.  Handles are positive; one is used again only when it is neither
\* pending nor held in animationFrameId.
RequestAnimationFrame(q, held) ==
    CHOOSE h \in 1..(Cardinality(q) + 2) :
        /\ h \notin q \cup {held}
        /\ \A g \in 1..(h - 1) : g \in q \cup {held}

\* webcam.isActive()
IsActive == stream /\ readyState >= 2

\* Faulty variant of the gate: a refresh is due already at the interval.
SegmentDueEq(timestamp) == timestamp - lastSegmentTime >= segmentInterval

\* timestamp - this.lastSegmentTime > this.segmentInterval
SegmentDue(timestamp) == timestamp - lastSegmentTime > segmentInterval

\* The segmenter's cache as a mask record.
Cached == [w |-> maskWidth, h |-> maskHeight, data |-> lastMask]

\* What segmentForVideo may return: no confidence mask, or one of these.
NoResult == [w |-> 0, h |-> 0, data |-> NoMask]
AppMasks ==
    { [w |-> 2, h |-> 1, data |-> <<0, 50>>],
      [w |-> 2, h |-> 1, data |-> <<100, 0>>] }
SegmentResults == {NoResult} \cup AppMasks

\* Faulty variant: a result without a confidence mask clears the cache.
ProcessFrameClearing(res) ==
    IF ~segmenter THEN Cached
    ELSE res

\* The cache after processFrame(video, timestamp) whose oracle returns res.
ProcessFrame(res) ==
    IF ~segmenter THEN Cached
    ELSE IF res = NoResult THEN Cached
    ELSE res

\* Faulty variant: the projection samples the mask cached before the tick.
LoopSamplerStale(m) == [kind |-> "mask", m |-> Cached]

\* (x, y) => this.segmenter.getMaskValueAt(x, y), called by updateFromMask
\* when the segmenter's cache is m.
LoopSampler(m) == [kind |-> "mask", m |-> m]

\* Whether the loop called at timestamp calls processFrame, and the calls it
\* makes, in order.
CallsProcessFrame(timestamp) == running /\ SegmentDue(timestamp) /\ IsActive

LoopCalls(timestamp) ==
    IF ~running THEN <<>>
    ELSE (IF CallsProcessFrame(timestamp) THEN <<"processFrame">> ELSE <<>>)
         \o <<"updateFromMask", "render">>

\* Faulty variant of startLoop: no test of animationFrameId.
StartLoopUnguarded ==
    LET h == RequestAnimationFrame(rafQueue, animationFrameId)
    IN  <<h, rafQueue \cup {h}>>

\* startLoop() and pauseLoop(): the new <<animationFrameId, rafQueue>>.
StartLoop ==
    IF animationFrameId # Null THEN <<animationFrameId, rafQueue>>
    ELSE LET h == RequestAnimationFrame(rafQueue, animationFrameId)
         IN  <<h, rafQueue \cup {h}>>

PauseLoop ==
    IF animationFrameId # Null THEN <<Null, rafQueue \ {animationFrameId}>>
    ELSE <<animationFrameId, rafQueue>>

\* startCamera(): await this.segmenter.initialize() resolves, or rejects.
InitializeResolves ==
    /\ startPc = "initialize"
    /\ segmenter' = TRUE
    /\ startPc' = "start"
    /\ UNCHANGED <<gridVars, skinVars, lastMask, maskWidth, maskHeight, camVars,
                   running, animationFrameId, lastSegmentTime, segmentInterval,
                   threshold, tileSize, errorHidden, hidden, rafQueue, container, now>>

\* Faulty variant: running was set before the await.
InitializeRejectsRunning ==
    /\ startPc = "initialize"
    /\ startPc' = "failed"
    /\ errorHidden' = FALSE
    /\ running' = TRUE
    /\ UNCHANGED <<gridVars, skinVars, segVars, camVars,
                   animationFrameId, lastSegmentTime, segmentInterval,
                   threshold, tileSize, hidden, rafQueue, container, now>>

InitializeRejects ==
    /\ startPc = "initialize"
    /\ startPc' = "failed"
    /\ errorHidden' = FALSE
    /\ UNCHANGED <<gridVars, skinVars, segVars, camVars,
                   running, animationFrameId, lastSegmentTime, segmentInterval,
                   threshold, tileSize, hidden, rafQueue, container, now>>

\* await this.webcam.start(...) resolves: the video plays; the renderer is
\* resized (which clears the canvas), running is set and the loop started.
WebcamStartResolves ==
    /\ startPc = "start"
    /\ stream' = TRUE
    /\ readyState' = 3
    /\ canvas' = Blank
    /\ running' = TRUE
    /\ LET l == StartLoop
       IN  animationFrameId' = l[1] /\ rafQueue' = l[2]
    /\ startPc' = "running"
    /\ UNCHANGED <<gridVars, rendererType, lastGridSize, states, tileData, mineRatio,
                   minePositions, pc, segVars, lastSegmentTime, segmentInterval,
                   threshold, tileSize, errorHidden, hidden, container, now>>

\* ... or rejects: getUserMedia failed (no stream), or play() failed (the
\* stream is kept).
WebcamStartRejects(got) ==
    /\ startPc = "start"
    /\ stream' = got
    /\ startPc' = "failed"
    /\ errorHidden' = FALSE
    /\ UNCHANGED <<gridVars, skinVars, segVars, readyState,
                   running, animationFrameId, lastSegmentTime, segmentInterval,
                   threshold, tileSize, hidden, rafQueue, container, now>>

\* The video element's readyState changes.
VideoReadyStates == {1, 2, 3}

VideoReadyState(n) ==
    /\ stream
    /\ readyState' = n
    /\ UNCHANGED <<gridVars, skinVars, segVars, stream, appVars>>

\* Faulty variant of the loop: lastSegmentTime is set only when the call
\* cached a mask.
LoopTimesMasksOnly(h, timestamp, res) ==
    /\ h \in rafQueue
    /\ ~hidden
    /\ now' = timestamp
    /\ IF ~running
         THEN /\ rafQueue' = rafQueue \ {h}
              /\ UNCHANGED <<tiles, canvas, segVars, animationFrameId, lastSegmentTime>>
         ELSE LET m == IF CallsProcessFrame(timestamp) THEN ProcessFrame(res) ELSE Cached
                  t == UpdateFromMask(tiles, cols, rows, LoopSampler(m), threshold)
                  g == RequestAnimationFrame(rafQueue \ {h}, Null)
              IN  /\ lastMask' = m.data
                  /\ maskWidth' = m.w
                  /\ maskHeight' = m.h
                  /\ lastSegmentTime' = IF CallsProcessFrame(timestamp) /\ res # NoResult
                                          THEN timestamp
                                        ELSE lastSegmentTime
                  /\ tiles' = t
                  /\ canvas' = PlainFrame(t, cols, rows)
                  /\ animationFrameId' = g
                  /\ rafQueue' = (rafQueue \ {h}) \cup {g}
                  /\ UNCHANGED segmenter
    /\ UNCHANGED <<cols, rows, rendererType, lastGridSize, states, tileData, mineRatio,
                   minePositions, pc, camVars, running, segmentInterval, threshold,
                   tileSize, startPc, errorHidden, hidden, container>>

\* The pending callback h is run with the given timestamp: the loop of
\* startLoop; res is what the oracle returns if it is asked.
Loop(h, timestamp, res) ==
    /\ h \in rafQueue
    /\ ~hidden
    /\ now' = timestamp
    /\ IF ~running
         THEN /\ rafQueue' = rafQueue \ {h}
              /\ UNCHANGED <<tiles, canvas, segVars, animationFrameId, lastSegmentTime>>
         ELSE LET m == IF CallsProcessFrame(timestamp) THEN ProcessFrame(res) ELSE Cached
                  t == UpdateFromMask(tiles, cols, rows, LoopSampler(m), threshold)
                  g == RequestAnimationFrame(rafQueue \ {h}, Null)
              IN  /\ lastMask' = m.data
                  /\ maskWidth' = m.w
                  /\ maskHeight' = m.h
                  /\ lastSegmentTime' = IF CallsProcessFrame(timestamp) THEN timestamp
                                        ELSE lastSegmentTime
                  /\ tiles' = t
                  /\ canvas' = PlainFrame(t, cols, rows)
                  /\ animationFrameId' = g
                  /\ rafQueue' = (rafQueue \ {h}) \cup {g}
                  /\ UNCHANGED segmenter
    /\ UNCHANGED <<cols, rows, rendererType, lastGridSize, states, tileData, mineRatio,
                   minePositions, pc, camVars, running, segmentInterval, threshold,
                   tileSize, startPc, errorHidden, hidden, container>>

\* visibilitychange, with document.hidden = h.
VisibilityChange(h) ==
    /\ hidden' = h
    /\ LET l == IF h /\ running THEN PauseLoop
                ELSE IF ~h /\ running THEN StartLoop
                ELSE <<animationFrameId, rafQueue>>
       IN  animationFrameId' = l[1] /\ rafQueue' = l[2]
    /\ UNCHANGED <<gridVars, skinVars, segVars, camVars, running, lastSegmentTime,
                   segmentInterval, threshold, tileSize, startPc, errorHidden,
                   container, now>>

\* The container takes the given size and the ResizeObserver's callback runs.
AppResize(size) ==
    /\ container' = size
    /\ canvas' = Blank
    /\ LET g == CreateGrid(size[1], size[2], tileSize)
       IN  /\ cols' = g[1]
           /\ rows' = g[2]
           /\ tiles' = InitializeTiles(g[1], g[2])
    /\ UNCHANGED <<rendererType, lastGridSize, states, tileData, mineRatio, minePositions,
                   pc, segVars, camVars, running, animationFrameId, lastSegmentTime,
                   segmentInterval, threshold, tileSize, startPc, errorHidden, hidden,
                   rafQueue, now>>

\* input on #grid-density with value v.
GridSlider(v) ==
    LET size == 6 + ((80 - v) \div 2)
        g    == CreateGrid(container[1], container[2], size)
    IN  /\ tileSize' = size
        /\ cols' = g[1]
        /\ rows' = g[2]
        /\ tiles' = InitializeTiles(g[1], g[2])
        /\ UNCHANGED <<skinVars, segVars, camVars, running, animationFrameId,
                       lastSegmentTime, segmentInterval, threshold, startPc, errorHidden,
                       hidden, rafQueue, container, now>>

\* input on #depth-sensitivity with value v: 0.9 - v / 12, in hundredths.
\* A mask value in whole hundredths is >= 90 - 100v/12 exactly when it is
\* >= that number rounded up, which is 90 - floor(100v/12).
SensitivitySlider(v) ==
    /\ threshold' = 90 - ((100 * v) \div 12)
    /\ UNCHANGED <<gridVars, skinVars, segVars, camVars, running, animationFrameId,
                   lastSegmentTime, segmentInterval, tileSize, startPc, errorHidden,
                   hidden, rafQueue, container, now>>

----------------------------------------------------------------------------
(* Spec: the application from its construction on.  The loop of            *)
(* src/unnamed/part_002 is the loop of src/main.ts with segmentInterval    *)
(* 50, so the interval is either.                                          *)

MaxTime == 102
FrameDeltas == {17, 33, 68}
ContainerSizes == {<<16, 16>>, <<32, 16>>}
GridSliderValues == {28}
SensitivityValues == {0}

Init ==
    \E size \in ContainerSizes, interval \in {SegmentIntervalMain, SegmentIntervalAlt} :
        LET g == CreateGrid(size[1], size[2], TileSizeMain)
        IN  /\ GridNew(g[1], g[2])
            /\ SkinNew("plain", DefaultMineRatio)
            /\ SegmenterNew /\ WebcamNew /\ AppIn(interval, size) /\ HistNew

\* What is recorded of a tick (whose timestamp now keeps): the time of the
\* last refresh and the capture's readiness before it, the call before it,
\* and the calls it made; invocations keeps the timestamps of the last two processFrame
\* calls.
\* A visibilitychange is recorded as "pause" when it cancels the pending
\* frame, as "resume" when it starts the paused loop again.
VisibilityOp(h) ==
    IF h /\ running /\ animationFrameId # Null THEN "pause"
    ELSE IF ~h /\ running /\ animationFrameId = Null THEN "resume"
    ELSE "visibilitychange"

LogTick(timestamp) ==
    /\ lastOp' = [op |-> "tick", after |-> lastOp.op, last |-> lastSegmentTime,
                  active |-> (stream /\ readyState >= 2)]
    /\ tickLog' = LoopCalls(timestamp)
    /\ invocations' = IF CallsProcessFrame(timestamp)
                        THEN IF invocations = <<>> THEN <<timestamp>>
                             ELSE <<invocations[Len(invocations)], timestamp>>
                        ELSE invocations
    /\ UNCHANGED <<repeated, ticks, flips, startPhase>>

Frame(h, d, res) ==
    /\ now + d <= MaxTime
    /\ Loop(h, now + d, res)
    /\ LogTick(now + d)

Next ==
    \/ InitializeResolves /\ Log([op |-> "initialized"])
    \/ InitializeRejects /\ Log([op |-> "failed"])
    \/ WebcamStartResolves /\ Log([op |-> "started"])
    \/ \E got \in BOOLEAN : WebcamStartRejects(got) /\ Log([op |-> "failed"])
    \/ \E n \in VideoReadyStates : VideoReadyState(n) /\ Log([op |-> "readyState"])
    \/ \E h \in rafQueue, d \in FrameDeltas, res \in SegmentResults : Frame(h, d, res)
    \/ \E h \in BOOLEAN : VisibilityChange(h) /\ Log([op |-> VisibilityOp(h)])
    \/ \E size \in ContainerSizes : AppResize(size) /\ Log([op |-> "resize"])
    \/ \E v \in GridSliderValues : GridSlider(v) /\ Log([op |-> "gridSlider"])
    \/ \E v \in SensitivityValues : SensitivitySlider(v) /\ Log([op |-> "sensitivitySlider"])

Spec == Init /\ [][Next]_vars

\* The mask value getMaskValueAt returns at the centre of tile (row, col),
\* from the segmenter's cache.
CentreValue(row, col) ==
    GetMaskValueAt(lastMask, maskWidth, maskHeight,
                   2 * col + 1, 2 * cols, 2 * row + 1, 2 * rows)

C10_OracleGated ==
    /\ lastOp.op = "tick" =>
          /\ Cardinality({i \in DOMAIN tickLog : tickLog[i] = "processFrame"}) <= 1
          /\ "processFrame" \in Range(tickLog) =>
                /\ now - lastOp.last > segmentInterval
                /\ lastOp.active
                /\ lastSegmentTime = now
    /\ Len(invocations) = 2 => invocations[2] - invocations[1] > segmentInterval

\* The tick that followed a pause of more than two intervals called the
\* oracle, once, its previous call being from before the pause.
C10_Witness ==
    /\ lastOp.op = "tick"
    /\ lastOp.after = "resume"
    /\ tickLog = <<"processFrame", "updateFromMask", "render">>
    /\ Len(invocations) = 2
    /\ invocations[2] = now
    /\ invocations[2] - invocations[1] > 2 * segmentInterval

----------------------------------------------------------------------------
(* SegSpec: a Segmenter driven through its public API: initialize,         *)
(* processFrame, getMaskValueAt, destroy, in any order.                    *)

\* The coordinates getMaskValueAt is read at, each a fraction in [0, 1).
ReadCoords == {<<0, 1>>, <<1, 2>>, <<3, 4>>}

\* Faulty variant of destroy: the cached mask is kept.
DestroyedCacheKept == Cached

\* destroy(): lastMask = null; maskWidth and maskHeight stay.
DestroyedCache == [w |-> maskWidth, h |-> maskHeight, data |-> NoMask]

SegInit ==
    /\ GridNew(1, 1)
    /\ SkinNew("plain", DefaultMineRatio)
    /\ SegmenterNew /\ WebcamNew /\ AppNew(SegmentIntervalMain) /\ HistNew

\* await initialize() resolves.
SegInitialize ==
    /\ segmenter' = TRUE
    /\ UNCHANGED <<gridVars, skinVars, lastMask, maskWidth, maskHeight, camVars, appVars>>

\* initialize() rejects (the files or the model cannot be loaded): no field
\* is assigned.
SegInitializeRejects ==
    UNCHANGED <<gridVars, skinVars, segVars, camVars, appVars>>

\* processFrame(video, timestamp): segmentForVideo returns res, or throws.
SegProcessFrame(res, throws) ==
    /\ LET m == IF throws THEN Cached ELSE ProcessFrame(res)
       IN  /\ lastMask' = m.data
           /\ maskWidth' = m.w
           /\ maskHeight' = m.h
    /\ UNCHANGED <<gridVars, skinVars, segmenter, camVars, appVars>>

\* getMaskValueAt(x, y): a read.
SegGetMaskValueAt ==
    UNCHANGED <<gridVars, skinVars, segVars, camVars, appVars>>

\* destroy()
SegDestroy ==
    /\ segmenter' = FALSE
    /\ LET m == DestroyedCache
       IN  /\ lastMask' = m.data
           /\ maskWidth' = m.w
           /\ maskHeight' = m.h
    /\ UNCHANGED <<gridVars, skinVars, camVars, appVars>>

\* Whether an inference has succeeded since construction or the last
\* destroy, as the record of the last call keeps it.
Succeeded == IF "succeeded" \in DOMAIN lastOp THEN lastOp.succeeded ELSE FALSE

SegNext ==
    \/ SegInitialize /\ Log([op |-> "initialize", succeeded |-> Succeeded])
    \/ SegInitializeRejects /\ Log([op |-> "initializeRejected", succeeded |-> Succeeded])
    \/ \E res \in SegmentResults \cup Masks, throws \in BOOLEAN :
          /\ SegProcessFrame(res, throws)
          /\ Log([op |-> "processFrame",
                  succeeded |-> Succeeded \/ (segmenter /\ ~throws /\ res # NoResult),
                  fresh |-> (segmenter /\ ~throws /\ res # NoResult)])
    \/ \E x \in ReadCoords, y \in ReadCoords :
          /\ SegGetMaskValueAt
          /\ Log([op |-> "getMaskValueAt", succeeded |-> Succeeded,
                  value |-> GetMaskValueAt(lastMask, maskWidth, maskHeight,
                                           x[1], x[2], y[1], y[2])])
    \/ SegDestroy /\ Log([op |-> "destroy", succeeded |-> FALSE])

SegSpec == SegInit /\ [][SegNext]_vars

\* C12: while no inference has succeeded (before initialize, after a
\* processFrame that failed or gave no mask, after destroy), getMaskValueAt
\* returns 0 at every coordinate; and a getMaskValueAt call changes no field
\* of the segmenter.
C12_ReadBeforeInferenceIsZero ==
    /\ [](lastOp.op = "getMaskValueAt" /\ ~lastOp.succeeded => lastOp.value = 0)
    /\ [][lastOp'.op = "getMaskValueAt" => UNCHANGED segVars]_vars

\* A segmenter that had cached a mask with a nonzero value was destroyed
\* and then read.
C12_Witness ==
    /\ lastOp.op = "getMaskValueAt"
    /\ ~lastOp.succeeded
    /\ maskWidth > 0
    /\ lastMask = NoMask
    /\ ~segmenter

----------------------------------------------------------------------------
(* SkinAppSpec: the application of src/unnamed/part_003, whose renderer is *)
(* a MinesweeperRenderer at first and is replaced by setRenderer.  Its     *)
(* startCamera, startLoop, pauseLoop and listeners are those of main.ts;   *)
(* its loop renders with the skin.                                         *)

SkinAppMaxTime == 102
SkinFrameDeltas == {17, 68}
SkinContainerSizes == {<<16, 16>>, <<80, 64>>}

\* The sets of indices a generation may draw in this specification: of
\* the first and the last tile.
SkinDraws == SUBSET ({0, cols * rows - 1} \cap RandomIndices(cols, rows))

SkinAppInit ==
    \E size \in SkinContainerSizes :
        LET g == CreateGrid(size[1], size[2], TileSizeMain)
        IN  /\ GridNew(g[1], g[2])
            /\ SkinNew("minesweeper", DefaultMineRatio)
            /\ SegmenterNew /\ WebcamNew /\ AppIn(SegmentIntervalMain, size) /\ HistNew

\* The loop of startLoop, run as the pending callback h.  mines is the set
\* of indices the generation draws when the minesweeper skin sees a new
\* grid size.
SkinLoop(h, timestamp, res, mines) ==
    /\ h \in rafQueue
    /\ ~hidden
    /\ running
    /\ IF rendererType = "minesweeper" /\ Stale
         THEN /\ mines \subseteq RandomIndices(cols, rows)
              /\ Cardinality(mines) = MineCount(cols, rows, mineRatio)
         ELSE mines = {}
    /\ now' = timestamp
    /\ LET m == IF CallsProcessFrame(timestamp) THEN ProcessFrame(res) ELSE Cached
           t == UpdateFromMask(tiles, cols, rows, LoopSampler(m), threshold)
           g == RequestAnimationFrame(rafQueue \ {h}, Null)
       IN  /\ lastMask' = m.data
           /\ maskWidth' = m.w
           /\ maskHeight' = m.h
           /\ lastSegmentTime' = IF CallsProcessFrame(timestamp) THEN timestamp
                                 ELSE lastSegmentTime
           /\ tiles' = t
           /\ IF rendererType = "flipdot"
                THEN /\ states' = EaseTiles(PhaseStorage, t, cols, rows, FlipSpeed)
                     /\ lastGridSize' = [cols |-> cols, rows |-> rows]
                     /\ canvas' = FdFrame(states')
                     /\ UNCHANGED <<tileData, minePositions>>
                ELSE /\ IF Stale
                          THEN /\ minePositions' = mines
                               /\ tileData' = CountPass(PlaceMines(cols, rows, mines),
                                                        0, cols, rows)
                               /\ lastGridSize' = [cols |-> cols, rows |-> rows]
                          ELSE UNCHANGED <<tileData, minePositions, lastGridSize>>
                     /\ canvas' = MsFrame(t, cols, rows, tileData')
                     /\ UNCHANGED states
           /\ animationFrameId' = g
           /\ rafQueue' = (rafQueue \ {h}) \cup {g}
    /\ UNCHANGED <<cols, rows, rendererType, mineRatio, pc, segmenter, camVars, running,
                   segmentInterval, threshold, tileSize, startPc, errorHidden, hidden,
                   container>>

\* app.setRenderer(type): a new renderer on the same canvas.
SetRenderer(type) ==
    /\ rendererType' = type
    /\ lastGridSize' = [cols |-> 0, rows |-> 0]
    /\ states' = <<>>
    /\ tileData' = <<>>
    /\ minePositions' = {}
    /\ UNCHANGED <<gridVars, mineRatio, pc, canvas, segVars, camVars, appVars>>

SkinFrame(h, d, res, mines) ==
    /\ now + d <= SkinAppMaxTime
    /\ SkinLoop(h, now + d, res, mines)
    /\ LogTick(now + d)

SkinAppNext ==
    \/ InitializeResolves /\ Log([op |-> "initialized"])
    \/ InitializeRejects /\ Log([op |-> "failed"])
    \/ WebcamStartResolves /\ Log([op |-> "started"])
    \/ \E got \in BOOLEAN : WebcamStartRejects(got) /\ Log([op |-> "failed"])
    \/ \E h \in rafQueue, d \in SkinFrameDeltas, res \in SegmentResults,
          mines \in SkinDraws :
          SkinFrame(h, d, res, mines)
    \/ \E h \in BOOLEAN : VisibilityChange(h) /\ Log([op |-> VisibilityOp(h)])
    \/ \E size \in SkinContainerSizes : AppResize(size) /\ Log([op |-> "resize"])
    \/ \E type \in {"minesweeper", "flipdot"} :
          SetRenderer(type) /\ Log([op |-> "setRenderer"])

SkinAppSpec == SkinAppInit /\ [][SkinAppNext]_vars

\* C15: a skin's render(grid, tileSize) and resize(width, height) leave the
\* grid as it is: cols, rows and every tile's row, col and pressed flag are
\* the same after the call (for the minesweeper skin, after every step of
\* the call) as before, for the minesweeper, flip-dot and ASCII skins.
C15_SkinsLeaveGrid ==
    [][(lastOp'.op \in {"render", "generate", "canvasResize"} \/ pc # "idle")
          => UNCHANGED <<cols, rows, tiles>>]_vars

\* An animating skin has rendered a grid of several tiles with a pressed
\* tile, whose phase is on its way.
C15_Witness ==
    /\ lastOp.op = "render"
    /\ rendererType \in {"flipdot", "ascii"}
    /\ cols * rows >= 2
    /\ \E rc \in TileCoords :
          /\ tiles[rc[1]][rc[2]].pressed
          /\ states[rc[1] * cols + rc[2]] > 0

\* GenFairSpec: MineFairSpec on grids of one row of at most GenMaxCols tiles
\* (the generation works on flat indices) with the mine ratios GenRatios.
GenMaxCols == 3
GenRatios == {<<0, 1>>, <<1, 20>>, <<1, 2>>, <<1, 1>>}

GenInit ==
    /\ \E c \in 1..GenMaxCols : GridNew(c, 1)
    /\ \E ratio \in GenRatios : SkinNew("minesweeper", ratio)
    /\ SegmenterNew /\ WebcamNew /\ AppNew(SegmentIntervalMain) /\ HistNew

GenNext ==
    \/ MineRender
    \/ \E i \in 0..(GenMaxCols - 1) : MineDraw(i)
    \/ MineFinish
    \/ \E c \in 1..GenMaxCols : MineResize(c, 1)
    \/ \E v \in ConstValues : MineUpdate(v)

GenFairSpec ==
    /\ GenInit /\ [][GenNext]_vars
    /\ WF_vars(MineFinish)
    /\ \A i \in 0..(GenMaxCols - 1) : WF_vars(MineDraw(i))

\* C17: with 0 <= mineRatio <= 1 the generation of the mine layout
\* terminates on every grid (Math.random() eventually yielding each index):
\* the loop stops once floor(rows*cols*mineRatio) distinct indices are
\* collected, and draws nothing when that count is 0.
RatioAtMostOne == mineRatio[1] >= 0 /\ mineRatio[1] <= mineRatio[2]

WantsNoMine == cols * rows * mineRatio[1] < mineRatio[2]

C17_GenerationTerminates ==
    /\ (pc = "draw" /\ RatioAtMostOne) ~> (pc = "idle")
    /\ [][(pc = "draw" /\ RatioAtMostOne) =>
            /\ Cardinality(minePositions') <= (cols * rows * mineRatio[1]) \div mineRatio[2]
            /\ WantsNoMine => (pc' = "idle" /\ minePositions' = {})]_vars

\* With mineRatio 1 a generation has ended on a grid of several tiles, all
\* of them mines.
C17_Witness ==
    /\ pc = "idle"
    /\ lastOp.op = "render"
    /\ lastOp.generated
    /\ mineRatio = <<1, 1>>
    /\ cols * rows >= 2
    /\ Cardinality(minePositions) = cols * rows

\* C13: pausing the loop (the page is hidden) changes only the pending
\* frame: the tiles, the phases, the mine layout, the cached mask and
\* lastSegmentTime (with every other field but animationFrameId) are as
\* before; and the first tick after the resume eases every tile from the
\* phase it holds, not from 0, and keeps the mine layout, the grid's size
\* being the one the skin cached.
C13_PauseKeepsState ==
    /\ [][lastOp'.op = "pause" =>
            /\ animationFrameId' = Null
            /\ rafQueue' = rafQueue \ {animationFrameId}
            /\ UNCHANGED <<gridVars, skinVars, segVars, camVars, running, lastSegmentTime,
                           segmentInterval, threshold, tileSize, startPc, errorHidden,
                           container, now>>]_vars
    /\ [][(lastOp.op = "resume" /\ lastOp'.op = "tick" /\ ~Stale) =>
            /\ rendererType = "flipdot" =>
                  \A rc \in TileCoords :
                      states'[rc[1] * cols + rc[2]] =
                          Ease(states[rc[1] * cols + rc[2]],
                               Target(tiles'[rc[1]][rc[2]]), FlipSpeed)
            /\ rendererType = "minesweeper" =>
                  tileData' = tileData /\ minePositions' = minePositions]_vars

\* The flip-dot skin, paused and resumed in the middle of a flip, has made
\* its first tick since: a phase is further from 0 than one step takes it,
\* and not yet at 1.
C13_Witness ==
    /\ lastOp.op = "tick"
    /\ lastOp.after = "resume"
    /\ rendererType = "flipdot"
    /\ \E rc \in TileCoords :
          /\ tiles[rc[1]][rc[2]].pressed
          /\ states[rc[1] * cols + rc[2]] > Ease(0, PhaseScale, FlipSpeed)
          /\ states[rc[1] * cols + rc[2]] < PhaseScale

\* C14: once segmenter.initialize() or webcam.start() has failed, the
\* error message is shown, running is false and no frame is pending; no
\* tick has run or ever runs (no projection, render or processFrame call),
\* whatever visibilitychange events follow, and startCamera is not tried
\* again.
C14_FailureNeverStartsLoop ==
    /\ [](startPc = "failed" =>
            /\ ~errorHidden
            /\ ~running
            /\ animationFrameId = Null
            /\ rafQueue = {}
            /\ tickLog = <<>>
            /\ invocations = <<>>)
    /\ [][startPc = "failed" => (startPc' = "failed" /\ lastOp'.op # "tick")]_vars

\* The capture failed to start after the segmenter was initialized, and a
\* visibilitychange of the visible page has been handled since.
C14_Witness ==
    /\ startPc = "failed"
    /\ segmenter
    /\ lastOp.op = "visibilitychange"
    /\ ~hidden
    /\ ~errorHidden

SkinSpeed == IF rendererType = "flipdot" THEN FlipSpeed ELSE TransitionSpeed

\* C19: a render of an animating skin that finds the grid's size different
\* from the size it cached eases every tile from a fresh storage of
\* cols*rows zeros; a render that finds the cached size eases every tile
\* from the phase it had.
C19_StorageResetOnNewSize ==
    [][(lastOp'.op = "render" /\ rendererType \in {"flipdot", "ascii"}) =>
          /\ DOMAIN states' = 0..(cols * rows - 1)
          /\ \A i \in 0..(cols * rows - 1) :
                states'[i] = Ease(IF Stale THEN 0 ELSE states[i],
                                  Target(tiles[i \div cols][i % cols]), SkinSpeed)
          /\ lastGridSize' = [cols |-> cols, rows |-> rows]]_vars

\* An ASCII skin that had rendered before renders a grid resized to a size
\* other than the cached one, and then renders it again with its tiles pressed.
C19_Witness ==
    /\ rendererType = "ascii"
    /\ lastOp.op = "render"
    /\ lastOp.after = "update"
    /\ ~lastOp.stale
    /\ ticks >= 3
    /\ cols * rows >= 2
    /\ \A i \in DOMAIN states : states[i] = Ease(0, PhaseScale, TransitionSpeed)

----------------------------------------------------------------------------
(* DensitySpec: the application of src/unnamed/part_002, whose grid has    *)
(* gridDensity columns and three quarters as many rows.                    *)

GridDensityInit == 40
ThresholdAlt == 50

\* state.gridDensity: written by the constructor and by the slider's
\* handler, each of which at once makes the grid with cols = gridDensity.
gridDensity == cols

\* createGrid(): cols = gridDensity, rows = Math.floor(cols * 0.75).
CreateGridDensity(d) == <<d, (3 * d) \div 4>>

\* The fields of the new App; startCamera() has been called and awaits
\* segmenter.initialize().  (This App has no tileSize and reads no
\* container.)
AppDensityNew ==
    /\ running = FALSE
    /\ animationFrameId = Null
    /\ lastSegmentTime = 0
    /\ segmentInterval = SegmentIntervalAlt
    /\ threshold = ThresholdAlt
    /\ tileSize = TileSizeMain
    /\ startPc = "initialize"
    /\ errorHidden = TRUE
    /\ hidden = FALSE
    /\ rafQueue = {}
    /\ container = <<640, 480>>
    /\ now = 0

\* input on #grid-density with value v: gridDensity = parseInt(value), and
\* the grid is made anew.
DensitySlider(v) ==
    LET g == CreateGridDensity(v)
    IN  /\ cols' = g[1]
        /\ rows' = g[2]
        /\ tiles' = InitializeTiles(g[1], g[2])
        /\ UNCHANGED <<skinVars, segVars, camVars, appVars>>

\* input on #depth-sensitivity with value v: threshold = 1 - v / 10.
DepthSlider(v) ==
    /\ threshold' = 100 - 10 * v
    /\ UNCHANGED <<gridVars, skinVars, segVars, camVars, running, animationFrameId,
                   lastSegmentTime, segmentInterval, tileSize, startPc, errorHidden,
                   hidden, rafQueue, container, now>>

DensityMaxTime == 68
DensityDeltas == {17, 34}
DensityValues == {0, 1, 2, GridDensityInit}
DepthValues == {5, 10}
DensityResults == {NoResult, [w |-> 2, h |-> 1, data |-> <<100, 0>>]}

DensityInit ==
    /\ LET g == CreateGridDensity(GridDensityInit) IN GridNew(g[1], g[2])
    /\ SkinNew("plain", DefaultMineRatio)
    /\ SegmenterNew /\ WebcamNew /\ AppDensityNew /\ HistNew

DensityFrame(h, d, res) ==
    /\ now + d <= DensityMaxTime
    /\ Loop(h, now + d, res)
    /\ LogTick(now + d)

DensityNext ==
    \/ InitializeResolves /\ Log([op |-> "initialized"])
    \/ InitializeRejects /\ Log([op |-> "failed"])
    \/ WebcamStartResolves /\ Log([op |-> "started"])
    \/ \E got \in BOOLEAN : WebcamStartRejects(got) /\ Log([op |-> "failed"])
    \/ \E h \in rafQueue, d \in DensityDeltas, res \in DensityResults : DensityFrame(h, d, res)
    \/ \E h \in BOOLEAN : VisibilityChange(h) /\ Log([op |-> VisibilityOp(h)])
    \/ \E v \in DensityValues : DensitySlider(v) /\ Log([op |-> "gridSlider", value |-> v])
    \/ \E v \in DepthValues : DepthSlider(v) /\ Log([op |-> "sensitivitySlider"])

DensitySpec == DensityInit /\ [][DensityNext]_vars

\* C20: in every reachable state the grid has at least one row and at
\* least one column.
C20_GridNeverEmpty == rows >= 1 /\ cols >= 1

----------------------------------------------------------------------------
(* The phases of the animating skins (EaseSpec).                           *)

\* C21: every phase is within [0, 1] in every state, for the flip-dot skin
\* (speed 0.18) and the ASCII skin (speed 0.2): the render that creates the
\* storage eases the tile from 0, and no render takes a phase out of [0, 1]
\* however the target changes.
C21_PhaseInUnitInterval ==
    /\ \A i \in DOMAIN states : states[i] >= 0 /\ states[i] <= PhaseScale
    /\ (lastOp.op = "render" /\ lastOp.stale) =>
           Phase0 = Ease(0, Target(tiles[0][0]), SkinSpeed)

\* The target was reversed while the phase was on its way, and the phase is
\* on its way back.
C21_Witness ==
    /\ lastOp.op = "render"
    /\ flips = 2
    /\ startPhase > 0 /\ startPhase < PhaseScale
    /\ ticks >= 2
    /\ Phase0 > 0 /\ Phase0 < PhaseScale

\* C25: a render never overshoots and never moves a phase away from its
\* target: the tile's new phase lies between its old phase and the target
\* (inclusive), its distance to the target does not grow, and a phase equal
\* to the target is left as it is.
C25_NoOvershoot ==
    [][lastOp'.op = "render" =>
          LET old    == Phase0
              new    == Phase0'
              target == Target(tiles[0][0])
          IN  /\ Min(old, target) <= new
              /\ new <= Max(old, target)
              /\ Abs(target - new) <= Abs(target - old)
              /\ old = target => new = old]_vars

\* The flip-dot skin's tile, pressed while at 0, is three renders on its
\* way to 1.
C25_Witness ==
    /\ rendererType = "flipdot"
    /\ lastOp.op = "render"
    /\ Pressed0
    /\ flips = 1
    /\ startPhase = 0
    /\ ticks = 3
    /\ Phase0 = Ease(Ease(Ease(0, PhaseScale, FlipSpeed), PhaseScale, FlipSpeed),
                     PhaseScale, FlipSpeed)
    /\ Phase0 < PhaseScale

----------------------------------------------------------------------------
(* The mine layout over the life of a grid (MineSpec).                     *)

\* No mask update, no resize of the grid and no render that finds the
\* cached size touches the mine layout.
LayoutKept ==
    [][(\/ lastOp'.op \in {"update", "resize"}
        \/ lastOp'.op = "render" /\ ~lastOp'.generated)
          => UNCHANGED <<tileData, minePositions>>]_vars

----------------------------------------------------------------------------
(* The pending frames of the application (Spec).                           *)

\* C23: at most one loop callback is pending at any time, and it is the one
\* animationFrameId holds; so a tick is never followed by another tick with
\* the same timestamp.
C23_OneFramePending ==
    /\ [](/\ Cardinality(rafQueue) <= 1
          /\ rafQueue \subseteq {animationFrameId}
          /\ (running /\ ~hidden) => rafQueue = {animationFrameId})
    /\ [][(lastOp.op = "tick" /\ lastOp'.op = "tick") => now' > now]_vars

\* The running application has handled two visibilitychange events of the
\* visible page in a row, after a tick, and one frame is pending.
C23_Witness ==
    /\ running
    /\ ~hidden
    /\ lastOp.op = "visibilitychange"
    /\ repeated
    /\ tickLog # <<>>
    /\ Cardinality(rafQueue) = 1

----------------------------------------------------------------------------
(* The segmenter's cache over calls that give no mask (SegSpec).           *)

\* C24: a processFrame call that gives no new mask (the segmenter is not
\* initialized, or the result has no confidence mask) leaves lastMask,
\* maskWidth and maskHeight as they were, so getMaskValueAt returns at every
\* coordinate what it returned before the call.
C24_NoMaskKeepsCache ==
    [][(lastOp'.op = "processFrame" /\ ~lastOp'.fresh) =>
          /\ UNCHANGED <<lastMask, maskWidth, maskHeight>>
          /\ \A x \in ReadCoords, y \in ReadCoords :
                GetMaskValueAt(lastMask', maskWidth', maskHeight', x[1], x[2], y[1], y[2])
                  = GetMaskValueAt(lastMask, maskWidth, maskHeight, x[1], x[2], y[1], y[2])]_vars

\* An initialized segmenter whose cached mask has a nonzero value has
\* processed a frame that gave no mask, twice in a row.
C24_Witness ==
    /\ lastOp.op = "processFrame"
    /\ ~lastOp.fresh
    /\ repeated
    /\ segmenter
    /\ lastMask # NoMask
    /\ \E x \in ReadCoords, y \in ReadCoords :
          GetMaskValueAt(lastMask, maskWidth, maskHeight, x[1], x[2], y[1], y[2]) > 0

====
